---------------------------- MODULE Spec2Model ----------------------------
(***************************************************************************)
(* A model of app.py, the Trading 212 portfolio tracker: position          *)
(* resolution from the combined CSV, the per-ticker dividend loop, the     *)
(* dividend calendar, currency conversion and the DRIP simulation.         *)
(*                                                                         *)
(* Numbers.  Python floats are modelled as exact rationals <<n, d>> with   *)
(* d > 0 in lowest terms; float rounding is not modelled.  pandas' 0/0 and *)
(* x/0 are the values NaN and Inf.  The n-th root taken by the CAGR        *)
(* formula is kept symbolic (see CagrPow).                                 *)
(*                                                                         *)
(* Text.  The action text of a row is a tuple of one-character strings, so *)
(* that strip/lower/substring are computed; tickers, month names and the   *)
(* "YYYY-MM" keys are strings.                                             *)
(***************************************************************************)
EXTENDS Integers, Sequences, FiniteSets, TLC

VARIABLES
    combined_df,      \* rows of the combined CSV after drop_duplicates
    columns,          \* column names of combined_df
    base_currency,    \* sidebar selectbox
    drip_years,       \* sidebar slider
    drip_enabled,     \* sidebar checkbox
    pc,               \* position of the script
    error,            \* the unhandled exception that ended the run, or "none"
    messages,         \* st.info / st.warning / st.success / st.write texts shown
    df,               \* the per-ticker table
    positive_df,      \* df[df["Shares"] > 0]
    todo,             \* tickers df.iterrows() has still to visit
    fetched,          \* per visited ticker: the iteration's dividends and last_12m
    monthly_income,   \* dict month name -> income
    calendar_rows,    \* list of {Ticker, Month, Dividend}
    calendar_df,      \* calendar_rows grouped by (Month, Ticker)
    env,              \* script-level names price, shares_path, income_path, selected_ticker
    fx_rate,          \* get_fx_rate("USD", base_currency)
    monthly_df,       \* monthly table, Jan..Dec order
    report,           \* what was displayed after the loop
    call,             \* arguments of a function called on its own
    ret               \* its result: <<>> before the call, <<value>> after

vars == <<combined_df, columns, base_currency, drip_years, drip_enabled, pc, error,
          messages, df, positive_df, todo, fetched, monthly_income, calendar_rows,
          calendar_df, env, fx_rate, monthly_df, report, call, ret>>

mainVars == <<combined_df, columns, base_currency, drip_years, drip_enabled, pc, error,
              messages, df, positive_df, todo, fetched, monthly_income, calendar_rows,
              calendar_df, env, fx_rate, monthly_df, report>>

-----------------------------------------------------------------------------
(* Float arithmetic, as exact rationals.                                   *)

Abs(n) == IF n < 0 THEN -n ELSE n

RECURSIVE Gcd(_, _)
Gcd(a, b) == IF b = 0 THEN a ELSE Gcd(b, a % b)

Norm(n, d) ==
    LET s == IF d < 0 THEN -1 ELSE 1
        g == Gcd(Abs(n), Abs(d))
    IN  <<(s * n) \div g, (s * d) \div g>>

R(n) == <<n, 1>>
Zero == R(0)
One == R(1)
RNeg(a) == <<-a[1], a[2]>>

\* sums and products cancel common factors before multiplying
RAdd(a, b) ==
    LET g == Gcd(a[2], b[2])
    IN  Norm(a[1] * (b[2] \div g) + b[1] * (a[2] \div g), (a[2] \div g) * b[2])
RMul(a, b) ==
    LET g1 == Gcd(Abs(a[1]), b[2])
        g2 == Gcd(Abs(b[1]), a[2])
    IN  Norm((a[1] \div g1) * (b[1] \div g2), (a[2] \div g2) * (b[2] \div g1))
RDiv(a, b) == RMul(a, IF b[1] < 0 THEN <<-b[2], -b[1]>> ELSE <<b[2], b[1]>>)
RGt(a, b) == a[1] * b[2] > b[1] * a[2]
RLeq(a, b) == ~RGt(a, b)

\* pandas Series division: x/0 is NaN or +-Inf, never an exception
NaN == <<0, 0>>
Inf == <<1, 0>>
NegInf == <<-1, 0>>
PdDiv(a, b) ==
    IF b[1] # 0 THEN RDiv(a, b)
    ELSE IF a[1] = 0 THEN NaN ELSE IF a[1] > 0 THEN Inf ELSE NegInf

-----------------------------------------------------------------------------
(* DRIP simulation.                                                        *)

RECURSIVE drip_loop(_, _, _, _, _, _)
drip_loop(k, shares, annual_dividend, price, shares_over_time, yearly_income) ==
    IF k = 0 THEN <<shares_over_time, yearly_income>>
    ELSE LET income == RMul(shares, annual_dividend)
             new_shares == RDiv(income, price)
             shares2 == RAdd(shares, new_shares)
         IN  drip_loop(k - 1, shares2, annual_dividend, price,
                       Append(shares_over_time, shares2),
                       Append(yearly_income, income))

\* a faulty variant: the share count is recorded before the reinvestment is added
RECURSIVE drip_loop_stale(_, _, _, _, _, _)
drip_loop_stale(k, shares, annual_dividend, price, shares_over_time, yearly_income) ==
    IF k = 0 THEN <<shares_over_time, yearly_income>>
    ELSE LET income == RMul(shares, annual_dividend)
             new_shares == RDiv(income, price)
             shares2 == RAdd(shares, new_shares)
         IN  drip_loop_stale(k - 1, shares2, annual_dividend, price,
                             Append(shares_over_time, shares),
                             Append(yearly_income, income))

simulate_drip_stale(shares, annual_dividend, price, years) ==
    drip_loop_stale(years, shares, annual_dividend, price, <<shares>>, <<>>)

simulate_drip(shares, annual_dividend, price, years) ==
    drip_loop(years, shares, annual_dividend, price, <<shares>>, <<>>)

-----------------------------------------------------------------------------
(* Dates.  A date is [y, m, d]; a timestamp is <<ordinal day, time of day>> *)
(* compared lexicographically.  A dividend event is [date, value] and its   *)
(* index entry is the date at midnight (tz_localize(None) keeps the wall    *)
(* time of an exchange-local midnight).                                     *)

IsLeap(y) == (y % 4 = 0) /\ ((y % 100 # 0) \/ (y % 400 = 0))

DaysInMonth(y, m) ==
    IF m = 2 THEN (IF IsLeap(y) THEN 29 ELSE 28)
    ELSE IF m \in {4, 6, 9, 11} THEN 30 ELSE 31

RECURSIVE DaysBeforeMonth(_, _)
DaysBeforeMonth(y, m) ==
    IF m = 1 THEN 0 ELSE DaysBeforeMonth(y, m - 1) + DaysInMonth(y, m - 1)

DaysBeforeYear(y) ==
    LET p == y - 1 IN p * 365 + p \div 4 - p \div 100 + p \div 400

ToOrdinal(date) == DaysBeforeYear(date.y) + DaysBeforeMonth(date.y, date.m) + date.d

Date(y, m, d) == [y |-> y, m |-> m, d |-> d]
Event(date, value) == [date |-> date, value |-> value]

\* timedelta(days=365) at line 189
WindowDays == 365

TsGeq(a, b) == a[1] > b[1] \/ (a[1] = b[1] /\ a[2] >= b[2])
EventTs(e) == <<ToOrdinal(e.date), 0>>

\* a faulty variant: the window compares dates only and drops the time of day of "now"
Cutoff_dateonly(now) == <<ToOrdinal(now.date) - WindowDays, 0>>

\* datetime.today() - timedelta(days=365); now = [date, tod]
Cutoff(now) == <<ToOrdinal(now.date) - WindowDays, now.tod>>

RECURSIVE Last12m(_, _)
Last12m(dividends, now) ==
    IF dividends = <<>> THEN <<>>
    ELSE LET e == Head(dividends)
             rest == Last12m(Tail(dividends), now)
         IN  IF TsGeq(EventTs(e), Cutoff(now)) THEN <<e>> \o rest ELSE rest

RECURSIVE SeriesSum(_)
SeriesSum(dividends) ==
    IF dividends = <<>> THEN Zero
    ELSE RAdd(Head(dividends).value, SeriesSum(Tail(dividends)))

\* date + pd.DateOffset(years=1): the day is clipped to the month's length
AddYear(date) ==
    LET dim == DaysInMonth(date.y + 1, date.m)
    IN  Date(date.y + 1, date.m, IF date.d > dim THEN dim ELSE date.d)

MonthAbbr == <<"Jan", "Feb", "Mar", "Apr", "May", "Jun",
               "Jul", "Aug", "Sep", "Oct", "Nov", "Dec">>

\* strftime("%Y-%m") and strftime("%b")
Strftime_Ym(date) ==
    ToString(date.y) \o "-" \o (IF date.m < 10 THEN "0" ELSE "") \o ToString(date.m)
Strftime_b(date) == MonthAbbr[date.m]

-----------------------------------------------------------------------------
(* Dividend CAGR.                                                          *)

\* default of the parameter "years" at line 80
DefaultCagrYears == 5

\* (base)^(1/root) - 1, kept symbolic; 0.0 is CagrZero
CagrZero == [base |-> One, root |-> 1]
CagrPow(base, root) == IF base = One THEN CagrZero ELSE [base |-> base, root |-> root]

RECURSIVE YearSum(_, _)
YearSum(dividends, y) ==
    IF dividends = <<>> THEN Zero
    ELSE LET e == Head(dividends)
             rest == YearSum(Tail(dividends), y)
         IN  IF e.date.y = y THEN RAdd(e.value, rest) ELSE rest

\* dividends.resample("Y").sum(): one bucket per calendar year from the first
\* event's year to the last's, empty years summing to 0
Resample_Y(dividends) ==
    LET first == dividends[1].date.y
        last == dividends[Len(dividends)].date.y
    IN  [i \in 1..(last - first + 1) |-> YearSum(dividends, first + i - 1)]

IsPositive(x) == RGt(x, Zero)
Min(a, b) == IF a < b THEN a ELSE b

\* a faulty variant: the base year is always the first year of the series
cagr_first_year(dividends, years) ==
    IF dividends = <<>> THEN CagrZero
    ELSE LET annual == SelectSeq(Resample_Y(dividends), IsPositive)
             len == Len(annual)
         IN  IF len < 2 THEN CagrZero
             ELSE LET start == annual[1]
                      end == annual[len]
                      n == len - 1
                  IN  IF RLeq(start, Zero) \/ n <= 0 THEN CagrZero
                      ELSE CagrPow(RDiv(end, start), n)

calculate_dividend_cagr(dividends, years) ==
    IF dividends = <<>> THEN CagrZero
    ELSE LET annual == SelectSeq(Resample_Y(dividends), IsPositive)
             len == Len(annual)
         IN  IF len < 2 THEN CagrZero
             ELSE LET start == annual[len - Min(years, len) + 1]  \* iloc[-min(years, len)]
                      end == annual[len]                          \* iloc[-1]
                      n == len - 1
                  IN  IF RLeq(start, Zero) \/ n <= 0 THEN CagrZero
                      ELSE CagrPow(RDiv(end, start), n)

\* lines 189-190: last_12m = dividends[index >= today - 365 days]; last_12m.sum()
trailing_annual_div(dividends, now) == SeriesSum(Last12m(dividends, now))

-----------------------------------------------------------------------------
(* Bounds of the model.                                                    *)

MaxDripYears == 3      \* periods tried when simulate_drip is called on its own
MaxCagrYears == 6      \* calendar years a dividend history may span
MaxTod == 1            \* times of day tried for datetime.today(); 0 is midnight
MaxRows == 3           \* rows of the uploaded CSVs, position resolution alone
MaxRowsMain == 2       \* rows of the uploaded CSVs, whole script
MaxYears == 2          \* largest value tried for the "Years to simulate" slider

-----------------------------------------------------------------------------
(* The script's state before anything ran, for the runs that call one      *)
(* function on its own.                                                    *)

Unbound == [bound |-> FALSE]
Bound(v) == [bound |-> TRUE, val |-> v]

EnvInit == [price |-> Unbound, shares_path |-> Unbound, income_path |-> Unbound,
            selected_ticker |-> Unbound, drip_data |-> Unbound]

MainFresh ==
    /\ pc = "main"
    /\ error = "none"
    /\ messages = {}
    /\ df = <<>>
    /\ positive_df = <<>>
    /\ todo = <<>>
    /\ fetched = <<>>
    /\ monthly_income = <<>>
    /\ calendar_rows = <<>>
    /\ calendar_df = <<>>
    /\ env = EnvInit
    /\ fx_rate = One
    /\ monthly_df = <<>>
    /\ report = [shown |-> FALSE]

MainIdle ==
    /\ combined_df = <<>>
    /\ columns = {}
    /\ base_currency = "USD"
    /\ drip_years = 5
    /\ drip_enabled = TRUE
    /\ MainFresh

-----------------------------------------------------------------------------
(* simulate_drip called on its own.                                        *)

DripShares == {R(0), R(10), R(100)}
DripRates == {R(0), <<1, 2>>, R(2), R(5)}
DripPrices == {<<1, 2>>, R(50), R(100)}

InitDrip ==
    /\ MainIdle
    /\ call \in [shares : DripShares, annual_dividend : DripRates,
                 price : DripPrices, years : 0..MaxDripYears]
    /\ ret = <<>>

CallSimulateDrip ==
    /\ ret = <<>>
    /\ ret' = <<simulate_drip(call.shares, call.annual_dividend, call.price, call.years)>>
    /\ UNCHANGED <<mainVars, call>>

SpecDrip == InitDrip /\ [][CallSimulateDrip]_vars

-----------------------------------------------------------------------------
(* Dividend histories: ascending sequences of events.                      *)

\* one mid-June event per calendar year with a non-zero choice, and optionally a
\* second, December, event in the first of those years
RECURSIVE YearlyHistory(_, _, _)
YearlyHistory(amounts, i, second) ==
    IF i > Len(amounts) THEN <<>>
    ELSE (IF amounts[i] = 0 THEN <<>>
          ELSE <<Event(Date(2017 + i, 6, 15), R(amounts[i]))>> \o
               (IF second THEN <<Event(Date(2017 + i, 12, 15), R(1))>> ELSE <<>>))
         \o YearlyHistory(amounts, i + 1, second /\ amounts[i] = 0)

InitCagr ==
    /\ MainIdle
    /\ \E amounts \in [1..MaxCagrYears -> {0, 1, 2}], second \in BOOLEAN :
          call = [dividends |-> YearlyHistory(amounts, 1, second),
                  years |-> DefaultCagrYears]
    /\ ret = <<>>

CallDividendCagr ==
    /\ ret = <<>>
    /\ ret' = <<calculate_dividend_cagr(call.dividends, call.years)>>
    /\ UNCHANGED <<mainVars, call>>

SpecCagr == InitCagr /\ [][CallDividendCagr]_vars

-----------------------------------------------------------------------------
(* The trailing window on its own.                                         *)

Todays == {Date(2024, 3, 10), Date(2024, 3, 11)}

WindowDates == <<Date(2022, 6, 15), Date(2023, 3, 10), Date(2023, 3, 11),
                 Date(2023, 3, 12), Date(2023, 3, 15), Date(2024, 2, 29),
                 Date(2024, 3, 5)>>

RECURSIVE DatedHistory(_, _)
DatedHistory(amounts, i) ==
    IF i > Len(amounts) THEN <<>>
    ELSE (IF amounts[i] = 0 THEN <<>> ELSE <<Event(WindowDates[i], R(amounts[i]))>>)
         \o DatedHistory(amounts, i + 1)

InitWindow ==
    /\ MainIdle
    /\ \E amounts \in [1..Len(WindowDates) -> {0, 1, 2}], today \in Todays, tod \in 0..MaxTod :
          call = [dividends |-> DatedHistory(amounts, 1),
                  now |-> [date |-> today, tod |-> tod]]
    /\ ret = <<>>

CallTrailingAnnualDiv ==
    /\ ret = <<>>
    /\ ret' = <<trailing_annual_div(call.dividends, call.now)>>
    /\ UNCHANGED <<mainVars, call>>

SpecWindow == InitWindow /\ [][CallTrailingAnnualDiv]_vars

-----------------------------------------------------------------------------
(* The uploaded table.  A row is [Ticker, Action, Qty]; a column the CSV   *)
(* does not have holds the same filler in every row and is never read.     *)

TickerCols == <<"Ticker", "Stock Ticker", "Instrument">>
QtyCols == <<"No. of shares", "Shares", "Shares Owned">>
ActionCols == <<"Action", "Type", "Transaction Type">>

None == "<None>"

\* next((c for c in names if c in cols), None); without the default the
\* exhausted generator raises StopIteration
RECURSIVE FirstIn(_, _)
FirstIn(names, cols) ==
    IF names = <<>> THEN None
    ELSE IF Head(names) \in cols THEN Head(names) ELSE FirstIn(Tail(names), cols)

Upper == <<"A", "B", "C", "D", "E", "F", "G", "H", "I", "J", "K", "L", "M",
           "N", "O", "P", "Q", "R", "S", "T", "U", "V", "W", "X", "Y", "Z">>
LowerCase == <<"a", "b", "c", "d", "e", "f", "g", "h", "i", "j", "k", "l", "m",
               "n", "o", "p", "q", "r", "s", "t", "u", "v", "w", "x", "y", "z">>

ToLower == [c \in {Upper[i] : i \in 1..Len(Upper)} |->
               LowerCase[CHOOSE i \in 1..Len(Upper) : Upper[i] = c]]
LowerChar(c) == IF c \in DOMAIN ToLower THEN ToLower[c] ELSE c
Lower(s) == [i \in 1..Len(s) |-> LowerChar(s[i])]

RECURSIVE LStrip(_)
LStrip(s) == IF s # <<>> /\ Head(s) = " " THEN LStrip(Tail(s)) ELSE s
RECURSIVE RStrip(_)
RStrip(s) ==
    IF s # <<>> /\ s[Len(s)] = " " THEN RStrip(SubSeq(s, 1, Len(s) - 1)) ELSE s
Strip(s) == RStrip(LStrip(s))

\* sub in s
Contains(sub, s) ==
    \E i \in 0..(Len(s) - Len(sub)) : SubSeq(s, i + 1, i + Len(sub)) = sub

BuyWord == <<"b", "u", "y">>
SellWord == <<"s", "e", "l", "l">>

\* a faulty variant: the action text is matched without lower()
signed_shares_case_sensitive(row) ==
    LET action == Strip(row.Action)
    IN  IF Contains(BuyWord, action) THEN row.Qty
        ELSE IF Contains(SellWord, action) THEN RNeg(row.Qty)
        ELSE Zero

signed_shares(row) ==
    LET action == Lower(Strip(row.Action))
    IN  IF Contains(BuyWord, action) THEN row.Qty
        ELSE IF Contains(SellWord, action) THEN RNeg(row.Qty)
        ELSE Zero

\* a faulty variant: without an action column nothing is counted
share_value_unsigned_dropped(row, action_col) ==
    IF action_col # None THEN signed_shares(row) ELSE Zero

\* lines 114-128: the column that is summed, "Signed Shares" or the quantity column
share_value(row, action_col) ==
    IF action_col # None THEN signed_shares(row) ELSE row.Qty

\* combined_df.drop_duplicates(): the first occurrence of each row is kept
RECURSIVE drop_duplicates(_)
drop_duplicates(rows) ==
    IF rows = <<>> THEN <<>>
    ELSE LET n == Len(rows)
             init == drop_duplicates(SubSeq(rows, 1, n - 1))
         IN  IF \E i \in 1..(n - 1) : rows[i] = rows[n] THEN init
             ELSE Append(init, rows[n])

\* a blank ticker cell (NaN): groupby leaves the row out
NoTicker == ""

RECURSIVE SumShares(_, _, _)
\* the sum of the summed column over the rows of ticker t
SumShares(rows, t, action_col) ==
    IF rows = <<>> THEN Zero
    ELSE LET rest == SumShares(Tail(rows), t, action_col)
         IN  IF Head(rows).Ticker = t
             THEN RAdd(share_value(Head(rows), action_col), rest)
             ELSE rest

\* lines 130-134: groupby(ticker_col)[share_col].sum(), renamed Ticker / Shares
GroupShares(rows, action_col) ==
    LET tickers == {rows[i].Ticker : i \in 1..Len(rows)} \ {NoTicker}
    IN  [t \in tickers |-> [Shares |-> SumShares(rows, t, action_col)]]

\* line 136: df[df["Shares"] > 0]
PositiveRows(table) ==
    [t \in {u \in DOMAIN table : RGt(table[u].Shares, Zero)} |-> table[t]]

\* the order of df's rows: groupby sorts by ticker
TickerOrder == <<"AAPL", "MSFT">>
RECURSIVE RowOrder(_, _)
RowOrder(order, table) ==
    IF order = <<>> THEN <<>>
    ELSE (IF Head(order) \in DOMAIN table THEN <<Head(order)>> ELSE <<>>)
         \o RowOrder(Tail(order), table)

-----------------------------------------------------------------------------
(* The inputs of a run of the script.                                      *)

MarketBuy == <<"M", "a", "r", "k", "e", "t", " ", "b", "u", "y">>
LimitSell == <<"L", "I", "M", "I", "T", " ", "S", "E", "L", "L">>
Deposit == <<"D", "e", "p", "o", "s", "i", "t">>

Tickers == {"AAPL", "MSFT"}

Schemas == { {"Ticker", "No. of shares", "Action"},      \* a Trading 212 export
             {"Instrument", "Shares Owned"},             \* no action column
             {"Action", "No. of shares"},                \* no instrument column
             {"Ticker", "Action"} }                      \* no quantity column

\* the rows a CSV with columns cols may hold: deposits have a blank ticker
RowSet(cols, texts, qtys) ==
    LET hasT == FirstIn(TickerCols, cols) # None
        hasQ == FirstIn(QtyCols, cols) # None
        hasA == FirstIn(ActionCols, cols) # None
        held == [Ticker : IF hasT THEN Tickers ELSE {NoTicker},
                 Action : IF hasA THEN texts ELSE {<<>>},
                 Qty : IF hasQ THEN {R(q) : q \in qtys} ELSE {Zero}]
        cash == [Ticker : {NoTicker},
                 Action : IF hasA THEN {Deposit} ELSE {<<>>},
                 Qty : IF hasQ THEN {R(q) : q \in qtys} ELSE {Zero}]
    IN  held \cup cash

SeqsUpTo(S, n) == UNION {[1..k -> S] : k \in 0..n}

\* lines 21-52: the upload (concat, drop_duplicates) and the sidebar
InitUpload(texts, qtys, maxRows, years, currencies) ==
    /\ \E cols \in Schemas :
          /\ columns = cols
          /\ \E raw \in SeqsUpTo(RowSet(cols, texts, qtys), maxRows) :
                combined_df = drop_duplicates(raw)
    /\ base_currency \in currencies
    /\ drip_years \in years
    /\ drip_enabled \in BOOLEAN
    /\ MainFresh
    /\ call = <<>>
    /\ ret = <<>>

-----------------------------------------------------------------------------
(* Lines 109-141: position resolution.                                     *)

Crash(exception) ==
    /\ pc' = "crashed"
    /\ error' = exception

MsgNoData == "No data available. Upload your Trading 212 CSV to begin."
MsgNoSellColumn == "No Sell Action column detected."
MsgNoHoldings == "No holdings detected."
MsgProcessed == "Processed tickers with positive holdings."
MsgNoHoldingsAfter == "No holdings after processing buy/sell actions."
MsgNoPrice == "Could not fetch price data."

Main_Resolve ==
    /\ pc = "main"
    /\ IF combined_df = <<>>
       THEN /\ messages' = messages \cup {MsgNoData}                    \* line 346
            /\ pc' = "done"
            /\ UNCHANGED <<error, combined_df, df, positive_df>>
       ELSE LET ticker_col == FirstIn(TickerCols, columns)
                qty_col == FirstIn(QtyCols, columns)
                action_col == FirstIn(ActionCols, columns)
            IN  IF ticker_col = None \/ qty_col = None
                THEN /\ Crash("StopIteration")                           \* lines 110-111
                     /\ UNCHANGED <<messages, combined_df, df, positive_df>>
                ELSE \E grouped \in {GroupShares(combined_df, action_col)} :
                     \E positive \in {PositiveRows(grouped)} :
                         /\ combined_df' =
                               IF action_col = None THEN combined_df
                               ELSE [i \in 1..Len(combined_df) |->
                                       [Ticker |-> combined_df[i].Ticker,
                                        Action |-> combined_df[i].Action,
                                        Qty |-> combined_df[i].Qty,
                                        SignedShares |-> signed_shares(combined_df[i])]]
                         /\ positive_df' = positive
                         /\ df' = IF DOMAIN positive = {} THEN grouped ELSE positive
                         /\ messages' = messages
                               \cup (IF action_col = None THEN {MsgNoSellColumn} ELSE {})
                               \cup (IF DOMAIN positive = {} THEN {MsgNoHoldings}
                                     ELSE {MsgProcessed})
                         /\ pc' = "share_distribution"
                         /\ UNCHANGED error
    /\ UNCHANGED <<columns, base_currency, drip_years, drip_enabled, todo, fetched,
                   monthly_income, calendar_rows, calendar_df, env, fx_rate,
                   monthly_df, report, call, ret>>

-----------------------------------------------------------------------------
(* Lines 143-181: share distribution, and the columns of the dividend      *)
(* table.                                                                  *)

RECURSIVE SumOver(_, _)
\* the sum of f over the finite set S
SumOver(f, S) ==
    IF S = {} THEN Zero
    ELSE LET x == CHOOSE y \in S : TRUE IN RAdd(f[x], SumOver(f, S \ {x}))

\* line 145: (Shares / Shares.sum()) * 100
SharePct(shares, total) ==
    LET q == PdDiv(shares, total) IN IF q[2] = 0 THEN q ELSE RMul(q, R(100))

\* cagr * 100, the root kept symbolic
Pct(cagr) == [times |-> 100, of |-> cagr]

Main_ShareDistribution ==
    /\ pc = "share_distribution"
    /\ \E total \in {SumOver([t \in DOMAIN df |-> df[t].Shares], DOMAIN df)} :
          IF DOMAIN df = {}
          THEN /\ messages' = messages \cup {MsgNoHoldingsAfter}            \* line 172
               /\ pc' = "done"
               /\ UNCHANGED <<df, todo>>
          ELSE /\ df' = [t \in DOMAIN df |->
                           [Shares |-> df[t].Shares,
                            SharePct |-> SharePct(df[t].Shares, total),
                            AnnualDividendPerShare |-> Zero,
                            AnnualIncome |-> Zero,
                            DividendCagrPct |-> Pct(CagrZero),
                            SharesAfterDrip |-> Zero,
                            IncomeAfterDrip |-> Zero]]
               /\ todo' = RowOrder(TickerOrder, df)
               /\ pc' = "loop"
               /\ UNCHANGED messages
    /\ UNCHANGED <<combined_df, columns, base_currency, drip_years, drip_enabled, error,
                   positive_df, fetched, monthly_income, calendar_rows, calendar_df,
                   env, fx_rate, monthly_df, report, call, ret>>

-----------------------------------------------------------------------------
(* Lines 183-217: one iteration of the per-ticker loop.                    *)

MainToday == Date(2024, 3, 10)

\* what get_dividend_history may return; <<>> is also the result of any exception
HistChoices ==
    { <<>>,
      <<Event(Date(2023, 3, 15), R(1))>>,
      <<Event(Date(2022, 3, 15), R(1)), Event(Date(2023, 3, 15), R(1)),
        Event(Date(2024, 2, 29), R(1)), Event(Date(2024, 3, 5), R(2))>>,
      <<Event(Date(2023, 3, 10), R(1))>>,
      <<Event(Date(2023, 3, 11), R(1))>> }

\* the closes of history(period="5d"): none (the lookup raises) or a last close
PriceOutcomes == {<<>>, <<R(50)>>}

\* lines 210-213 and 308-311
fetch_price(quote) == IF quote = <<>> THEN Zero ELSE quote[Len(quote)]

\* a faulty variant: the projection keeps the event's own year
FutureDate_same_year(date) == date

\* line 195
FutureDate(date) == AddYear(date)

\* lines 194-200: the rows one ticker's events add to calendar_rows
CalendarRowsOf(ticker, last_12m, shares) ==
    [i \in 1..Len(last_12m) |->
        [Ticker |-> ticker,
         Month |-> Strftime_Ym(FutureDate(last_12m[i].date)),
         Dividend |-> RMul(last_12m[i].value, shares)]]

\* monthly_income[month] = monthly_income.get(month, 0) + amount
DictAdd(d, k, amount) ==
    [x \in DOMAIN d \cup {k} |->
        IF x = k THEN RAdd(IF k \in DOMAIN d THEN d[k] ELSE Zero, amount) ELSE d[x]]

\* lines 201-202 over the events of one ticker
RECURSIVE AddMonthly(_, _, _)
AddMonthly(d, last_12m, shares) ==
    IF last_12m = <<>> THEN d
    ELSE LET e == Head(last_12m)
         IN  AddMonthly(DictAdd(d, Strftime_b(e.date), RMul(e.value, shares)),
                        Tail(last_12m), shares)

Last(s) == s[Len(s)]

Main_LoopStep ==
    /\ pc = "loop"
    /\ todo # <<>>
    /\ todo' = Tail(todo)
    /\ \E dividends \in HistChoices, tod \in 0..MaxTod, quote \in PriceOutcomes :
       LET t == Head(todo)
           shares == df[t].Shares
       IN  IF dividends = <<>>
           THEN /\ fetched' = (t :> [dividends |-> dividends]) @@ fetched   \* continue
                /\ UNCHANGED <<df, monthly_income, calendar_rows, env>>
           ELSE \E last_12m \in {Last12m(dividends, [date |-> MainToday, tod |-> tod])} :
                \E annual_div \in {SeriesSum(last_12m)} :
                \E price \in {fetch_price(quote)} :
                \E drip \in {IF drip_enabled /\ RGt(price, Zero)
                             THEN Bound(simulate_drip(shares, annual_div, price, drip_years))
                             ELSE Unbound} :
                   /\ fetched' = (t :> [dividends |-> dividends, last_12m |-> last_12m,
                                        shares |-> shares, drip |-> drip]) @@ fetched
                   /\ calendar_rows' = calendar_rows \o CalendarRowsOf(t, last_12m, shares)
                   /\ monthly_income' = AddMonthly(monthly_income, last_12m, shares)
                   /\ df' = [df EXCEPT ![t] =
                               [@ EXCEPT
                                  !.AnnualDividendPerShare = annual_div,
                                  !.AnnualIncome = RMul(annual_div, shares),
                                  !.DividendCagrPct =
                                      Pct(calculate_dividend_cagr(dividends, DefaultCagrYears)),
                                  !.SharesAfterDrip =
                                      IF drip.bound THEN Last(drip.val[1]) ELSE @,
                                  !.IncomeAfterDrip =
                                      IF drip.bound THEN Last(drip.val[2]) ELSE @]]
                   /\ env' = IF ~drip_enabled THEN env
                             ELSE IF drip.bound
                             THEN [env EXCEPT !.price = Bound(price),
                                              !.shares_path = Bound(drip.val[1]),
                                              !.income_path = Bound(drip.val[2])]
                             ELSE [env EXCEPT !.price = Bound(price)]
    /\ UNCHANGED <<combined_df, columns, base_currency, drip_years, drip_enabled, pc,
                   error, messages, positive_df, calendar_df, fx_rate, monthly_df,
                   report, call, ret>>

-----------------------------------------------------------------------------
(* Line 219: the calendar table.                                           *)

RECURSIVE SumRows(_, _)
\* the sum of Dividend over the rows with key <<Month, Ticker>>
SumRows(rows, key) ==
    IF rows = <<>> THEN Zero
    ELSE LET r == Head(rows)
             rest == SumRows(Tail(rows), key)
         IN  IF <<r.Month, r.Ticker>> = key THEN RAdd(r.Dividend, rest) ELSE rest

\* groupby(["Month", "Ticker"])["Dividend"].sum(); the row order that
\* sort_values("Month") gives is not represented
GroupCalendar(rows) ==
    [key \in {<<rows[i].Month, rows[i].Ticker>> : i \in 1..Len(rows)} |->
        SumRows(rows, key)]

Main_BuildCalendar ==
    /\ pc = "loop"
    /\ todo = <<>>
    /\ IF calendar_rows = <<>>
       THEN /\ Crash("KeyError")      \* DataFrame([]) has no "Month" column to group by
            /\ UNCHANGED calendar_df
       ELSE /\ calendar_df' = GroupCalendar(calendar_rows)
            /\ pc' = "currency"
            /\ UNCHANGED error
    /\ UNCHANGED <<combined_df, columns, base_currency, drip_years, drip_enabled,
                   messages, df, positive_df, todo, fetched, monthly_income,
                   calendar_rows, env, fx_rate, monthly_df, report, call, ret>>

-----------------------------------------------------------------------------
(* Lines 221-228: currency conversion.                                     *)

\* the closes of the FX ticker's history(period="5d"): none, or a last close
FxHistories == {<<>>, <<(<<4, 5>>)>>}

get_fx_rate(from_ccy, to_ccy, hist) ==
    IF from_ccy = to_ccy THEN One
    ELSE IF hist = <<>> THEN One
    ELSE hist[Len(hist)]

month_order == <<"Jan", "Feb", "Mar", "Apr", "May", "Jun",
                 "Jul", "Aug", "Sep", "Oct", "Nov", "Dec">>

\* lines 225-228: the dict's items scaled by the rate, in month_order
RECURSIVE MonthlyTable(_, _, _)
MonthlyTable(order, d, rate) ==
    IF order = <<>> THEN <<>>
    ELSE (IF Head(order) \in DOMAIN d
          THEN <<[Month |-> Head(order), Income |-> RMul(d[Head(order)], rate)]>>
          ELSE <<>>)
         \o MonthlyTable(Tail(order), d, rate)

Main_CurrencyConversion ==
    /\ pc = "currency"
    /\ \E hist \in FxHistories :
       \E rate \in {get_fx_rate("USD", base_currency, hist)} :
          /\ fx_rate' = rate
          /\ df' = [t \in DOMAIN df |->
                      [df[t] EXCEPT !.AnnualIncome = RMul(@, rate),
                                    !.IncomeAfterDrip = RMul(@, rate)]]
          /\ monthly_df' = MonthlyTable(month_order, monthly_income, rate)
    /\ pc' = "display"
    /\ UNCHANGED <<combined_df, columns, base_currency, drip_years, drip_enabled, error,
                   messages, positive_df, todo, fetched, monthly_income, calendar_rows,
                   calendar_df, env, report, call, ret>>

-----------------------------------------------------------------------------
(* Lines 230-281: the tables and charts shown.                             *)

\* line 243: pivot(index="Month", columns="Ticker", values="Dividend").fillna(0)
CalendarPivot(cal) ==
    LET months == {k[1] : k \in DOMAIN cal}
        tickers == {k[2] : k \in DOMAIN cal}
    IN  [k \in months \X tickers |-> IF k \in DOMAIN cal THEN cal[k] ELSE Zero]

Main_Display ==
    /\ pc = "display"
    /\ report' = [shown |-> TRUE,
                  total |-> SumOver([t \in DOMAIN df |-> df[t].AnnualIncome], DOMAIN df),
                  calendar_pivot |-> CalendarPivot(calendar_df),
                  calendar_chart |-> calendar_df,
                  monthly_chart |-> monthly_df,
                  drip_chart |-> Unbound,
                  drip_df |-> Unbound]
    /\ pc' = "overall_drip"
    /\ UNCHANGED <<combined_df, columns, base_currency, drip_years, drip_enabled, error,
                   messages, df, positive_df, todo, fetched, monthly_income,
                   calendar_rows, calendar_df, env, fx_rate, monthly_df, call, ret>>

-----------------------------------------------------------------------------
(* Lines 283-293: the overall DRIP chart, drawn from the loop's leftover   *)
(* shares_path.                                                            *)

Main_OverallDrip ==
    /\ pc = "overall_drip"
    /\ IF drip_enabled
       THEN IF ~env.shares_path.bound
            THEN /\ Crash("NameError")
                 /\ UNCHANGED report
            ELSE /\ report' = [report EXCEPT !.drip_chart = env.shares_path]
                 /\ pc' = "per_stock"
                 /\ UNCHANGED error
       ELSE /\ pc' = "per_stock"
            /\ UNCHANGED <<error, report>>
    /\ UNCHANGED <<combined_df, columns, base_currency, drip_years, drip_enabled,
                   messages, df, positive_df, todo, fetched, monthly_income,
                   calendar_rows, calendar_df, env, fx_rate, monthly_df, call, ret>>

-----------------------------------------------------------------------------
(* Lines 295-344: the per-stock DRIP simulation.  The test of price at     *)
(* line 313 is outside the "if drip_enabled" block.                        *)

\* lines 316-322
DripData(ticker, shares_path, annual_div) ==
    [i \in 1..Len(shares_path) |->
        [Ticker |-> ticker, Year |-> i - 1, Shares |-> shares_path[i],
         Income |-> RMul(shares_path[i], annual_div)]]

Main_PerStockDrip ==
    /\ pc = "per_stock"
    /\ \E selected_ticker \in DOMAIN df, quote \in PriceOutcomes :
       \E env1 \in {IF drip_enabled /\ DOMAIN df # {}
                    THEN [env EXCEPT !.selected_ticker = Bound(selected_ticker),
                                     !.drip_data = Bound(<<>>),
                                     !.price = Bound(fetch_price(quote))]
                    ELSE env} :
          IF ~env1.price.bound
          THEN /\ Crash("NameError")                                       \* line 313
               /\ env' = env1
               /\ UNCHANGED <<messages, report>>
          ELSE IF RGt(env1.price.val, Zero)
          THEN LET ticker == env1.selected_ticker.val
                   annual_div == df[ticker].AnnualDividendPerShare
               IN  \E drip \in {simulate_drip(df[ticker].Shares, annual_div,
                                              env1.price.val, drip_years)} :
                      /\ env' = [env1 EXCEPT
                                   !.shares_path = Bound(drip[1]),
                                   !.income_path = Bound(drip[2]),
                                   !.drip_data = Bound(DripData(ticker, drip[1], annual_div))]
                      /\ report' = [report EXCEPT
                                      !.drip_df = Bound(DripData(ticker, drip[1], annual_div))]
                      /\ pc' = "done"
                      /\ UNCHANGED <<messages, error>>
          ELSE /\ messages' = messages \cup {MsgNoPrice}                   \* line 344
               /\ env' = env1
               /\ pc' = "done"
               /\ UNCHANGED <<error, report>>
    /\ UNCHANGED <<combined_df, columns, base_currency, drip_years, drip_enabled, df,
                   positive_df, todo, fetched, monthly_income, calendar_rows,
                   calendar_df, fx_rate, monthly_df, call, ret>>

-----------------------------------------------------------------------------
(* The whole script.                                                       *)

Init ==
    InitUpload({MarketBuy, LimitSell}, {10}, MaxRowsMain, 1..MaxYears,
               {"USD", "GBP", "EUR"})

Next ==
    \/ Main_Resolve
    \/ Main_ShareDistribution
    \/ Main_LoopStep
    \/ Main_BuildCalendar
    \/ Main_CurrencyConversion
    \/ Main_Display
    \/ Main_OverallDrip
    \/ Main_PerStockDrip

Spec == Init /\ [][Next]_vars

-----------------------------------------------------------------------------
(* Position resolution on its own, over richer transaction tables.         *)

InitResolver ==
    InitUpload({MarketBuy, LimitSell, Deposit}, {2, 3, 10}, MaxRows, {5}, {"USD"})

SpecResolver == InitResolver /\ [][Main_Resolve]_vars

-----------------------------------------------------------------------------
(* C1-C4: the orchestration.                                               *)

Resolved == pc \notin {"main"} /\ error # "StopIteration" /\ MsgNoData \notin messages
PerInstrumentPcs == {"loop", "currency", "display", "overall_drip", "per_stock"}

\* C1: when no instrument has net_shares > 0 after position resolution, the script
\* reports "no holdings" and runs no per-instrument step; no instrument with
\* net_shares <= 0 is in the table the downstream steps work on.
C1_OnlyLivePositionsDownstream ==
    Resolved =>
        /\ (DOMAIN positive_df = {} =>
               MsgNoHoldings \in messages /\ pc \notin PerInstrumentPcs /\ DOMAIN fetched = {})
        /\ (pc # "share_distribution" => \A t \in DOMAIN df : RGt(df[t].Shares, Zero))

\* C2: with at least one live position, whatever the DRIP settings and the fetch
\* outcomes, the script ends without an unhandled exception.
C2_NoUnhandledError ==
    (Resolved /\ DOMAIN positive_df # {}) => (pc # "crashed" /\ error = "none")

Converted == pc \in {"display", "overall_drip", "per_stock"} \/ report.shown

FetchedDripIncome(t) ==
    IF t \in DOMAIN fetched /\ fetched[t].dividends # <<>> /\ fetched[t].drip.bound
    THEN Last(fetched[t].drip.val[2]) ELSE Zero
FetchedDripShares(t) ==
    IF t \in DOMAIN fetched /\ fetched[t].dividends # <<>> /\ fetched[t].drip.bound
    THEN Last(fetched[t].drip.val[1]) ELSE Zero

\* the fields the conversion does scale, and the share counts it leaves alone
ScaledFieldsOk ==
    Converted =>
        /\ \A t \in DOMAIN df :
              /\ df[t].AnnualIncome =
                    RMul(fx_rate, RMul(df[t].AnnualDividendPerShare, df[t].Shares))
              /\ df[t].IncomeAfterDrip = RMul(fx_rate, FetchedDripIncome(t))
              /\ df[t].SharesAfterDrip = FetchedDripShares(t)
        /\ \A i \in 1..Len(monthly_df) :
              monthly_df[i].Income = RMul(fx_rate, monthly_income[monthly_df[i].Month])
        /\ {monthly_df[i].Month : i \in 1..Len(monthly_df)} = DOMAIN monthly_income

\* C3: the conversion with rate R multiplies every monetary output (annual income,
\* DRIP-end income, monthly totals, calendar amounts) by R and leaves the share
\* counts unchanged.
C3_AllMonetaryFieldsScaled ==
    /\ ScaledFieldsOk
    /\ report.shown =>
          \A key \in DOMAIN calendar_df :
             /\ report.calendar_pivot[key] = RMul(fx_rate, SumRows(calendar_rows, key))
             /\ report.calendar_chart[key] = RMul(fx_rate, SumRows(calendar_rows, key))

\* C4: a table without an instrument column or without a quantity column ends in a
\* reported data error, not in an unhandled exception.
C4_SchemaMismatchReported ==
    (pc # "main" /\ combined_df # <<>>
        /\ (FirstIn(TickerCols, columns) = None \/ FirstIn(QtyCols, columns) = None))
    => (pc = "done" /\ error = "none")

-----------------------------------------------------------------------------
(* C5, C6: position resolution.                                            *)

\* the three action texts of the modelled tables, as BUY / SELL / OTHER
ClaimedSign(text) ==
    CASE text = MarketBuy -> 1
      [] text = LimitSell -> -1
      [] text = Deposit -> 0

RECURSIVE ClaimedNet(_, _, _)
\* the sum over the rows of ticker t of the quantity, signed by the action when
\* `signed` holds
ClaimedNet(rows, t, signed) ==
    IF rows = <<>> THEN Zero
    ELSE LET r == Head(rows)
             rest == ClaimedNet(Tail(rows), t, signed)
             k == IF signed THEN ClaimedSign(r.Action) ELSE 1
         IN  IF r.Ticker = t THEN RAdd(RMul(R(k), r.Qty), rest) ELSE rest

RowTickers == {combined_df[i].Ticker : i \in 1..Len(combined_df)} \ {NoTicker}
HasAction == FirstIn(ActionCols, columns) # None
ResolvedOk == pc = "share_distribution"

C6_NothingCounted ==
    (ResolvedOk /\ ~HasAction) =>
        /\ MsgNoSellColumn \in messages
        /\ \A t \in DOMAIN df : df[t].Shares = Zero

\* C6 as amended: without an action column a warning is reported and every
\* transaction counts with sign +: each instrument's net_shares is the plain sum of
\* its transactions' quantities.
C6_UnsignedSum ==
    (ResolvedOk /\ ~HasAction) =>
        /\ MsgNoSellColumn \in messages
        /\ DOMAIN df = RowTickers
        /\ \A t \in DOMAIN df : df[t].Shares = ClaimedNet(combined_df, t, FALSE)

C6_Witness ==
    /\ ResolvedOk
    /\ ~HasAction
    /\ Len(combined_df) = 2
    /\ "MSFT" \in DOMAIN df
    /\ df["MSFT"].Shares = R(13)

-----------------------------------------------------------------------------
(* C8: the calendar.                                                       *)

\* the buckets the events of the modelled histories are meant to fall in:
\* <<"YYYY-MM" one year on, short month name>>
ClaimedBucket(date) ==
    CASE date.y = 2023 /\ date.m = 3 -> <<"2024-03", "Mar">>
      [] date.y = 2024 /\ date.m = 2 -> <<"2025-02", "Feb">>
      [] date.y = 2024 /\ date.m = 3 -> <<"2025-03", "Mar">>

FetchedWindow(t) ==
    IF t \in DOMAIN fetched /\ fetched[t].dividends # <<>> THEN fetched[t].last_12m ELSE <<>>

RECURSIVE ClaimedAmount(_, _, _, _)
\* the sum of value * shares over the events whose bucket has `part` equal to `label`
ClaimedAmount(events, shares, part, label) ==
    IF events = <<>> THEN Zero
    ELSE LET e == Head(events)
             rest == ClaimedAmount(Tail(events), shares, part, label)
         IN  IF ClaimedBucket(e.date)[part] = label
             THEN RAdd(RMul(e.value, shares), rest) ELSE rest

CalendarBuilt == pc \in {"currency", "display", "overall_drip", "per_stock"} \/ report.shown

\* C8: every event of a ticker's trailing-12-month subset adds value * shares to the
\* calendar bucket ("YYYY-MM" of its date plus one year, ticker) and to the
\* month-name total of that month; the month-name totals sum the calendar buckets
\* of that month across tickers and years (2023-03-15, 1.0, 10 shares: "2024-03" =
\* 10.0, counted in "Mar").
C8_CalendarBuckets ==
    CalendarBuilt =>
        /\ DOMAIN calendar_df =
              UNION {{<<ClaimedBucket(FetchedWindow(t)[i].date)[1], t>> :
                         i \in 1..Len(FetchedWindow(t))} : t \in DOMAIN fetched}
        /\ \A key \in DOMAIN calendar_df :
              calendar_df[key] =
                 ClaimedAmount(FetchedWindow(key[2]), df[key[2]].Shares, 1, key[1])
        /\ \A name \in DOMAIN monthly_income :
              monthly_income[name] =
                 SumOver(calendar_df,
                         {key \in DOMAIN calendar_df :
                             \E t \in DOMAIN fetched :
                                \E i \in 1..Len(FetchedWindow(t)) :
                                   ClaimedBucket(FetchedWindow(t)[i].date) = <<key[1], name>>})
        /\ DOMAIN monthly_income =
              UNION {{ClaimedBucket(FetchedWindow(t)[i].date)[2] :
                         i \in 1..Len(FetchedWindow(t))} : t \in DOMAIN fetched}

C8_Witness ==
    /\ CalendarBuilt
    /\ DOMAIN calendar_df = {<<"2024-03", "AAPL">>, <<"2025-02", "AAPL">>,
                             <<"2025-03", "AAPL">>, <<"2024-03", "MSFT">>}
    /\ calendar_df[<<"2024-03", "AAPL">>] = R(10)
    /\ calendar_df[<<"2025-03", "AAPL">>] = R(20)
    /\ monthly_income["Mar"] = R(40)
    /\ monthly_income["Feb"] = R(10)

-----------------------------------------------------------------------------
(* C7: simulate_drip.                                                      *)

\* C7: for price > 0 and N >= 0, simulate_drip returns a shares sequence of length
\* N+1 starting at the initial shares and an income sequence of length N with
\* income[k-1] = shares[k-1] * rate and shares[k] = shares[k-1] + income[k-1] / price
\* for every period k; N = 0 gives ([shares], []); (100, 5, 100, 1) gives
\* ([100, 105], [500]).
C7_DripRecurrence ==
    ret # <<>> =>
        LET shares_path == ret[1][1]
            income_path == ret[1][2]
            N == call.years
        IN  /\ Len(shares_path) = N + 1
            /\ Len(income_path) = N
            /\ shares_path[1] = call.shares
            /\ \A k \in 1..N :
                  /\ income_path[k] = RMul(shares_path[k], call.annual_dividend)
                  /\ shares_path[k + 1] =
                        RAdd(shares_path[k], RDiv(income_path[k], call.price))
            /\ (N = 0 => ret[1] = <<(<<call.shares>>), <<>>>>)
            /\ (call = [shares |-> R(100), annual_dividend |-> R(5),
                        price |-> R(100), years |-> 1]
                  => ret[1] = <<(<<R(100), R(105)>>), <<R(500)>>>>)

\* two periods of compounding: 100 -> 105 -> 110.25 shares, income 500 then 525
C7_Witness ==
    /\ ret # <<>>
    /\ call = [shares |-> R(100), annual_dividend |-> R(5), price |-> R(100), years |-> 2]
    /\ ret[1] = <<(<<R(100), R(105), <<441, 4>> >>), <<R(500), R(525)>> >>

-----------------------------------------------------------------------------
(* C10: calculate_dividend_cagr.                                           *)

EventYears(dividends) == {dividends[i].date.y : i \in 1..Len(dividends)}
NonZeroYears(dividends) == {y \in EventYears(dividends) : YearSum(dividends, y) # Zero}
\* the k-th (from 0) of a set of years in ascending order
YearAt(S, k) == CHOOSE y \in S : Cardinality({z \in S : z < y}) = k
Max(a, b) == IF a > b THEN a ELSE b

ClaimedCagr(dividends, lookback_years) ==
    LET S == NonZeroYears(dividends)
        count == Cardinality(S)
    IN  IF count < 2 THEN CagrZero
        ELSE LET start == YearSum(dividends, YearAt(S, Max(0, count - lookback_years)))
                 end == YearSum(dividends, YearAt(S, count - 1))
             IN  IF RLeq(start, Zero) THEN CagrZero
                 ELSE CagrPow(RDiv(end, start), count - 1)

\* C10: calculate_dividend_cagr returns 0.0 when fewer than 2 calendar years have a
\* non-zero sum or the chosen start sum is <= 0; otherwise (end/start)^(1/n) - 1 with
\* start the sum at index max(0, count - lookback_years) of the non-zero year sums in
\* ascending order, end the most recent year's sum and n = count - 1; the value is
\* always defined (a positive base, a root >= 1).
C10_CagrFormula ==
    ret # <<>> =>
        /\ ret[1] = ClaimedCagr(call.dividends, call.years)
        /\ ret[1].root >= 1 /\ ret[1].base[2] > 0 /\ ret[1].base[1] > 0
        /\ (Cardinality(NonZeroYears(call.dividends)) < 2 => ret[1] = CagrZero)

\* more non-zero years than the lookback, so that the base year is not the first
\* year, with a base sum that differs from the first year's and a non-zero growth
C10_Witness ==
    /\ ret # <<>>
    /\ LET S == NonZeroYears(call.dividends)
           count == Cardinality(S)
       IN  /\ count > call.years
           /\ YearSum(call.dividends, YearAt(S, 0)) #
                 YearSum(call.dividends, YearAt(S, count - call.years))
           /\ ret[1] # CagrZero
           /\ ret[1].root = count - 1

-----------------------------------------------------------------------------
(* C9: the trailing window.                                                *)

DaysBefore(date, today) == ToOrdinal(today) - ToOrdinal(date)

RECURSIVE SumWhere(_, _, _, _)
\* the sum of the values of the events at most `days` days before today, the event
\* exactly `days` days before counted when `boundary` holds
SumWhere(dividends, today, days, boundary) ==
    IF dividends = <<>> THEN Zero
    ELSE LET e == Head(dividends)
             rest == SumWhere(Tail(dividends), today, days, boundary)
             n == DaysBefore(e.date, today)
         IN  IF n < days \/ (n = days /\ boundary) THEN RAdd(e.value, rest) ELSE rest

\* C9 as stated: the trailing annual dividend per share is the sum over the events
\* with ex_date >= today's date - 365 days, the event dated exactly 365 days before
\* today included.
C9_BoundaryIncluded ==
    ret # <<>> => ret[1] = SumWhere(call.dividends, call.now.date, WindowDays, TRUE)

\* C9 as amended: the sum is over the events whose midnight timestamp is >= now - 365
\* days, now carrying the time of day: events up to 364 days before today are
\* included, events 366 days before or older are excluded, and the event dated
\* exactly 365 days before today is included only when now is exactly midnight; an
\* empty history gives 0.0.
C9_TrailingWindow ==
    ret # <<>> =>
        /\ ret[1] = SumWhere(call.dividends, call.now.date, WindowDays, call.now.tod = 0)
        /\ (call.dividends = <<>> => ret[1] = Zero)
        /\ (call.now.date = Date(2024, 3, 10) /\ Len(call.dividends) = 1 =>
              LET e == call.dividends[1]
              IN  /\ (e.date = Date(2023, 3, 10) => ret[1] = Zero)        \* 366 days
                  /\ (e.date = Date(2023, 3, 12) => ret[1] = e.value)     \* 364 days
                  /\ (e.date = Date(2023, 3, 11) =>                       \* 365 days
                        ret[1] = IF call.now.tod = 0 THEN e.value ELSE Zero))

\* a single event dated exactly 365 days before today, seen after midnight: excluded
C9_Witness ==
    /\ ret # <<>>
    /\ call.now = [date |-> Date(2024, 3, 10), tod |-> 1]
    /\ call.dividends = <<Event(Date(2023, 3, 11), R(2))>>
    /\ ret[1] = Zero

=============================================================================
